---- MODULE Spec2Model ----
(***************************************************************************)
(* A model of evm-simulation-tracing: ForkDB (src/src/fork_db.rs), a       *)
(* cache-first overlay over remote chain state, and Backend                *)
(* (src/src/provider.rs), the blocking bridge to the worker that owns the  *)
(* RPC provider.                                                           *)
(*                                                                         *)
(* Specifications of the module:                                           *)
(*   Spec             one ForkDB driven by one thread, over accounts,      *)
(*                    storage, code and commit; each provider call runs    *)
(*                    to completion inside the ForkDB operation, because   *)
(*                    the calling thread blocks until the worker replies.  *)
(*   SpecBlocks       the same ForkDB over block hashes.                   *)
(*   SpecBridge       several threads calling Backend directly: the        *)
(*                    bounded queue, the one-shot reply channels and the   *)
(*                    worker loop, one step per suspension point.          *)
(*   SpecSameAddress  the threads all asking for one account, with fair    *)
(*                    scheduling.                                          *)
(*   SpecMixed        the threads mixing account, storage and block-hash   *)
(*                    requests of one address.                             *)
(***************************************************************************)
EXTENDS Integers, Sequences, FiniteSets, TLC

\* ------------------------------------------------------------------ bounds
\* u64::MAX, scaled down: block numbers of ForkDB range over 0..MaxU64.
MaxU64 == 4
\* Capacity of the request queue, channel(100) scaled down.
QueueCap == 2

\* ------------------------------------------------------------ value domains
Addresses == {"a1", "a2"}
Slots == {0, 1}
StorageValues == {0, 7}
Codes == {<<>>, <<1>>}

\* What the RPC node may hold for an account (provider.rs AccountInfo).
RemoteAccounts ==
    { [balance |-> 0, nonce |-> 0, code |-> <<>>],
      [balance |-> 1000, nonce |-> 2, code |-> <<1>>] }

\* Option<T>: a sequence of length 0 or 1.
None == <<>>
Some(x) == <<x>>

\* Result<T, E>
OkR(v) == [tag |-> "Ok", val |-> v]
ErrR(e) == [tag |-> "Err", err |-> e]

\* HashMap helpers
Has(m, k) == k \in DOMAIN m
Put(m, k, v) == [x \in DOMAIN m \cup {k} |-> IF x = k THEN v ELSE m[x]]
EmptyMap == <<>>

\* ------------------------------------------------------------- conversions
\* U256::to_string: the decimal digits, most significant first.
RECURSIVE to_string(_)
to_string(n) == IF n < 10 THEN <<n>> ELSE Append(to_string(n \div 10), n % 10)

\* U256::from_str on a string without radix prefix: base 10.
RECURSIVE from_str(_)
from_str(s) ==
    IF Len(s) = 1 THEN s[1]
    ELSE from_str(SubSeq(s, 1, Len(s) - 1)) * 10 + s[Len(s)]

\* Keccak-256 of a byte string: injective on the modelled codes.
keccak256(data) == <<"keccak", data>>
KECCAK_EMPTY == keccak256(<<>>)
\* B256::default() / rB256::default()
B256_ZERO == <<"zero">>

\* revm AccountInfo::default()
DefaultInfo ==
    [balance |-> 0, nonce |-> 0, code_hash |-> KECCAK_EMPTY, code |-> <<>>]

\* The closure of get_basic: provider AccountInfo -> revm AccountInfo.
ToAccountInfo(acc) ==
    [balance |-> from_str(to_string(acc.balance)),
     nonce |-> acc.nonce,
     code_hash |-> keccak256(acc.code),
     code |-> acc.code]

\* --------------------------------------------------------- remote answers
\* One account fetch is three RPC queries; `fail` names the first that fails
\* (what the node holds is then of no consequence: one record stands for it).
AccountAnswers ==
    {ans \in [acct : RemoteAccounts, fail : {"none", "balance", "nonce", "code"}] :
        ans.fail = "none" \/ ans.acct.balance = 0}
StorageAnswers ==
    {[ok |-> TRUE, val |-> v] : v \in StorageValues} \cup {[ok |-> FALSE, val |-> 0]}
\* get_block: transport failure, no such block, a block without hash, a hash.
BlockAnswers ==
    { [kind |-> "fail", hash |-> B256_ZERO],
      [kind |-> "missing", hash |-> B256_ZERO],
      [kind |-> "nohash", hash |-> B256_ZERO],
      [kind |-> "hash", hash |-> <<"block", 1>>] }

Query(name, args) == [q |-> name, args |-> args]

VARIABLES
    \* ForkDB.db : CacheDB<EmptyDB>
    accounts,       \* db.accounts : Address -> [info, storage]
    contracts,      \* db.contracts : code hash -> bytecode
    block_hashes,   \* db.block_hashes : U256 -> B256
    \* the worker's HashMap<Address, AccountInfo> (second-level cache)
    db,
    \* ---- Backend
    queue,          \* the mpsc channel: sequence of [req, from]
    cpc,            \* per caller: position in Backend::get_*
    creq,           \* per caller: the request of its call
    cres,           \* per caller: the result its call returned
    reply,          \* per caller: its oneshot channel
    wpc,            \* worker: position in backend_loop
    wcur,           \* worker: the dequeued (request, response_sender)
    wacc            \* worker: balance and nonce fetched so far

dbVars == <<accounts, contracts, block_hashes>>
bridgeVars == <<queue, cpc, creq, cres, reply, wpc, wcur, wacc>>
vars == <<accounts, contracts, block_hashes, db,
          queue, cpc, creq, cres, reply, wpc, wcur, wacc>>

\* ------------------------------------------------- provider.rs, run whole
\* B256::from(index.to_be_bytes()) and back (slot.into()); the 32-byte word
\* is scaled to two base-256 digits.
to_be_bytes(n) == <<n \div 256, n % 256>>
from_be_bytes(b) == b[1] * 256 + b[2]

\* get_account: the second-level cache first, then balance, nonce and code;
\* the first failing query ends the call with `?` and nothing is inserted.
get_account(dbw, address, ans) ==
    LET qb == Query("get_balance", <<address>>)
        qn == Query("get_transaction_count", <<address>>)
        qc == Query("get_code_at", <<address>>)
        account_info == [balance |-> ans.acct.balance,
                         nonce |-> ans.acct.nonce,
                         code |-> ans.acct.code]
    IN  IF Has(dbw, address)
        THEN [result |-> OkR(dbw[address]), db |-> dbw, remote |-> <<>>]
        ELSE IF ans.fail = "balance"
        THEN [result |-> ErrR("transport"), db |-> dbw, remote |-> <<qb>>]
        ELSE IF ans.fail = "nonce"
        THEN [result |-> ErrR("transport"), db |-> dbw, remote |-> <<qb, qn>>]
        ELSE IF ans.fail = "code"
        THEN [result |-> ErrR("transport"), db |-> dbw, remote |-> <<qb, qn, qc>>]
        ELSE [result |-> OkR(account_info),
              db |-> Put(dbw, address, account_info),
              remote |-> <<qb, qn, qc>>]

\* get_storage_at: one query, its error mapped and returned.
get_storage_at(address, slot, ans) ==
    [result |-> IF ans.ok THEN OkR(ans.val) ELSE ErrR("transport"),
     remote |-> <<Query("get_storage_at", <<address, from_be_bytes(slot)>>)>>]

\* The result of get_block once the node has answered.
block_result(ans) ==
    IF ans.kind = "fail" THEN ErrR("transport")
    ELSE IF ans.kind = "missing" THEN ErrR("Block not found")
    ELSE IF ans.kind = "nohash" THEN OkR(B256_ZERO)
    ELSE OkR(ans.hash)

\* get_block_hash: number.to::<u64>() panics above u64::MAX; else one query.
get_block_hash(number, ans) ==
    IF number > MaxU64
    THEN [result |-> [tag |-> "Panic"], remote |-> <<>>]
    ELSE [result |-> block_result(ans),
          remote |-> <<Query("get_block", <<number>>)>>]

\* ------------------------------------------ impl EthProvider for Backend
\* Backend::get_* enqueue the request and block for the reply; with one
\* calling thread and a running worker the reply is the worker's result.
ProviderCall(name, args, result) ==
    [call |-> Query(name, args), result |-> result]

get_basic(dbw, address, ans) ==
    LET r == get_account(dbw, address, ans)
    IN  [ret |-> IF r.result.tag = "Ok"
                 THEN Some(ToAccountInfo(r.result.val))
                 ELSE None,
         db |-> r.db,
         prov |-> <<ProviderCall("get_basic", <<address>>, r.result)>>,
         remote |-> r.remote]

get_storage(address, index, ans) ==
    LET r == get_storage_at(address, to_be_bytes(index), ans)
    IN  [ret |-> IF r.result.tag = "Ok"
                 THEN from_str(to_string(r.result.val))
                 ELSE 0,
         prov |-> <<ProviderCall("get_storage", <<address, index>>, r.result)>>,
         remote |-> r.remote]

EthProvider_get_block_hash(number, ans) ==
    LET alloy_number == from_str(to_string(number))
        r == get_block_hash(alloy_number, ans)
    IN  [ret |-> IF r.result.tag = "Ok" THEN r.result.val ELSE B256_ZERO,
         prov |-> <<ProviderCall("get_block_hash", <<number>>, r.result)>>,
         remote |-> r.remote]

\* ------------------------------------------------ CacheDB<EmptyDB> (revm)
\* insert_contract: files non-empty code under its hash and normalises the
\* hash of the info it is given.
insert_contract(ctrs, info) ==
    LET h1 == IF info.code # <<>> /\ info.code_hash = KECCAK_EMPTY
              THEN keccak256(info.code) ELSE info.code_hash
        c1 == IF info.code # <<>> /\ ~Has(ctrs, h1)
              THEN Put(ctrs, h1, info.code) ELSE ctrs
        h2 == IF h1 = B256_ZERO THEN KECCAK_EMPTY ELSE h1
    IN  [contracts |-> c1, info |-> [info EXCEPT !.code_hash = h2]]

\* accounts.entry(address).or_default()
or_default(accts, address) ==
    IF Has(accts, address) THEN accts[address]
    ELSE [info |-> DefaultInfo, storage |-> EmptyMap]

\* insert_account_info: insert_contract, then entry.or_default().info = info
insert_account_info(accts, ctrs, address, info) ==
    LET c == insert_contract(ctrs, info)
        e == or_default(accts, address)
    IN  [accounts |-> Put(accts, address, [e EXCEPT !.info = c.info]),
         contracts |-> c.contracts]

\* load_account: a vacant entry is filled from EmptyDB, which knows no
\* account, so with DbAccount::new_not_existing().
load_account(accts, address) ==
    IF Has(accts, address) THEN accts
    ELSE Put(accts, address, [info |-> DefaultInfo, storage |-> EmptyMap])

\* insert_account_storage: load_account, then storage.insert(slot, value)
insert_account_storage(accts, address, slot, value) ==
    LET a == load_account(accts, address)
    IN  Put(a, address,
            [a[address] EXCEPT !.storage = Put(a[address].storage, slot, value)])

\* --------------------------------------------------------------- ForkDB
\* The state a ForkDB call reads and writes: the three maps of its CacheDB
\* and, through the provider, the worker's map.
State(accts, ctrs, hashes, dbw) ==
    [accounts |-> accts, contracts |-> ctrs, block_hashes |-> hashes, db |-> dbw]

\* The outcome of one ForkDB call: its result, the state after it, the
\* provider calls and the RPC queries it made.
Outcome(ret, st, prov, remote) ==
    [ret |-> ret, st |-> st, prov |-> prov, remote |-> remote]

\* basic, with the fetched record returned but not inserted.
basic_not_inserted(st, address, ans) ==
    IF Has(st.accounts, address)
    THEN Outcome(OkR(Some(st.accounts[address].info)), st, <<>>, <<>>)
    ELSE LET info == get_basic(st.db, address, ans)
         IN  Outcome(OkR(info.ret), [st EXCEPT !.db = info.db],
                     info.prov, info.remote)

\* basic, with a default record inserted when the provider has none.
basic_caches_absent(st, address, ans) ==
    IF Has(st.accounts, address)
    THEN Outcome(OkR(Some(st.accounts[address].info)), st, <<>>, <<>>)
    ELSE LET info == get_basic(st.db, address, ans)
             c == insert_account_info(st.accounts, st.contracts, address,
                      IF info.ret # None THEN info.ret[1] ELSE DefaultInfo)
         IN  Outcome(OkR(info.ret),
                     State(c.accounts, c.contracts, st.block_hashes, info.db),
                     info.prov, info.remote)

\* impl Database for ForkDB
basic(st, address, ans) ==
    IF Has(st.accounts, address)
    THEN Outcome(OkR(Some(st.accounts[address].info)), st, <<>>, <<>>)
    ELSE LET info == get_basic(st.db, address, ans)
             c == IF info.ret # None
                  THEN insert_account_info(st.accounts, st.contracts,
                                           address, info.ret[1])
                  ELSE [accounts |-> st.accounts, contracts |-> st.contracts]
         IN  Outcome(OkR(info.ret),
                     State(c.accounts, c.contracts, st.block_hashes, info.db),
                     info.prov, info.remote)

\* storage, with a fetched zero returned but not inserted.
storage_zero_not_inserted(st, address, index, ans) ==
    IF Has(st.accounts, address) /\ Has(st.accounts[address].storage, index)
    THEN Outcome(OkR(st.accounts[address].storage[index]), st, <<>>, <<>>)
    ELSE LET storage_val == get_storage(address, index, ans)
         IN  Outcome(OkR(storage_val.ret),
                     IF storage_val.ret = 0 THEN st
                     ELSE [st EXCEPT !.accounts =
                             insert_account_storage(st.accounts, address,
                                                    index, storage_val.ret)],
                     storage_val.prov, storage_val.remote)

storage(st, address, index, ans) ==
    IF Has(st.accounts, address) /\ Has(st.accounts[address].storage, index)
    THEN Outcome(OkR(st.accounts[address].storage[index]), st, <<>>, <<>>)
    ELSE LET storage_val == get_storage(address, index, ans)
         IN  Outcome(OkR(storage_val.ret),
                     [st EXCEPT !.accounts =
                        insert_account_storage(st.accounts, address,
                                               index, storage_val.ret)],
                     storage_val.prov, storage_val.remote)

block_hash(st, number, ans) ==
    IF Has(st.block_hashes, number)
    THEN Outcome(OkR(st.block_hashes[number]), st, <<>>, <<>>)
    ELSE LET h == EthProvider_get_block_hash(number, ans)
         IN  Outcome(OkR(h.ret),
                     [st EXCEPT !.block_hashes = Put(st.block_hashes, number, h.ret)],
                     h.prov, h.remote)

\* CacheDB::code_by_hash: a vacant entry is filled from EmptyDB, whose
\* code_by_hash_ref answers Ok(Bytecode::default()); map_err never fires.
code_by_hash(st, code_hash) ==
    IF Has(st.contracts, code_hash)
    THEN Outcome(OkR(st.contracts[code_hash]), st, <<>>, <<>>)
    ELSE Outcome(OkR(<<>>),
                 [st EXCEPT !.contracts = Put(st.contracts, code_hash, <<>>)],
                 <<>>, <<>>)

\* impl DatabaseRef for ForkDB
basic_ref(st, address, ans) ==
    IF Has(st.accounts, address)
    THEN Outcome(OkR(Some(st.accounts[address].info)), st, <<>>, <<>>)
    ELSE LET info == get_basic(st.db, address, ans)
         IN  Outcome(OkR(info.ret), [st EXCEPT !.db = info.db],
                     info.prov, info.remote)

storage_ref(st, address, index, ans) ==
    IF Has(st.accounts, address) /\ Has(st.accounts[address].storage, index)
    THEN Outcome(OkR(st.accounts[address].storage[index]), st, <<>>, <<>>)
    ELSE LET v == get_storage(address, index, ans)
         IN  Outcome(OkR(v.ret), st, v.prov, v.remote)

block_hash_ref(st, number, ans) ==
    IF number > MaxU64
    THEN Outcome(OkR(KECCAK_EMPTY), st, <<>>, <<>>)
    ELSE LET h == EthProvider_get_block_hash(number, ans)
         IN  Outcome(OkR(h.ret), st, h.prov, h.remote)

code_by_hash_ref(st, code_hash) ==
    Outcome(ErrR("NotFound"), st, <<>>, <<>>)

\* commit_account, with the info of an existing entry kept (or_insert).
commit_account_keeps_info(accts, ctrs, address, account) ==
    IF ~account.status.touched
    THEN [accounts |-> accts, contracts |-> ctrs]
    ELSE IF account.status.selfdestructed
    THEN [accounts |-> Put(accts, address,
                           [info |-> DefaultInfo, storage |-> EmptyMap]),
          contracts |-> ctrs]
    ELSE LET c == insert_contract(ctrs, account.info)
             e == or_default(accts, address)
             kept == IF account.status.created THEN EmptyMap ELSE e.storage
             merged == [k \in DOMAIN kept \cup DOMAIN account.storage |->
                          IF Has(account.storage, k) THEN account.storage[k]
                          ELSE kept[k]]
         IN  [accounts |-> Put(accts, address,
                               [info |-> IF Has(accts, address) THEN e.info
                                         ELSE c.info,
                                storage |-> merged]),
              contracts |-> c.contracts]

\* impl DatabaseCommit for ForkDB: CacheDB::commit, one (address, account)
\* of the change set.  An account not marked touched is skipped; a
\* self-destructed one is reset; otherwise the info is replaced, the storage
\* cleared if the account was created, and the changed slots written.
commit_account(accts, ctrs, address, account) ==
    IF ~account.status.touched
    THEN [accounts |-> accts, contracts |-> ctrs]
    ELSE IF account.status.selfdestructed
    THEN [accounts |-> Put(accts, address,
                           [info |-> DefaultInfo, storage |-> EmptyMap]),
          contracts |-> ctrs]
    ELSE LET c == insert_contract(ctrs, account.info)
             e == or_default(accts, address)
             kept == IF account.status.created THEN EmptyMap ELSE e.storage
             merged == [k \in DOMAIN kept \cup DOMAIN account.storage |->
                          IF Has(account.storage, k) THEN account.storage[k]
                          ELSE kept[k]]
         IN  [accounts |-> Put(accts, address,
                               [info |-> c.info, storage |-> merged]),
              contracts |-> c.contracts]

RECURSIVE commit_loop(_, _, _, _)
commit_loop(accts, ctrs, changes, todo) ==
    IF todo = {} THEN [accounts |-> accts, contracts |-> ctrs]
    ELSE LET address == CHOOSE a \in todo : TRUE
             c == commit_account(accts, ctrs, address, changes[address])
         IN  commit_loop(c.accounts, c.contracts, changes, todo \ {address})

\* commit, with the overlay replaced by the accounts of the change set.
commit_drops_others(st, changes) ==
    LET c == commit_loop(st.accounts, st.contracts, changes, DOMAIN changes)
    IN  Outcome(OkR(<<>>),
                State([a \in DOMAIN c.accounts \cap DOMAIN changes |-> c.accounts[a]],
                      c.contracts, st.block_hashes, st.db),
                <<>>, <<>>)

commit(st, changes) ==
    LET c == commit_loop(st.accounts, st.contracts, changes, DOMAIN changes)
    IN  Outcome(OkR(<<>>),
                State(c.accounts, c.contracts, st.block_hashes, st.db),
                <<>>, <<>>)

\* ------------------------------------------------------ inputs of ForkDB
BlockNumbers == 0..MaxU64
CodeHashes == {KECCAK_EMPTY, keccak256(<<1>>)}
CommitInfos ==
    { [balance |-> 500, nonce |-> 3, code_hash |-> KECCAK_EMPTY, code |-> <<>>],
      [balance |-> 1000, nonce |-> 2, code_hash |-> keccak256(<<1>>), code |-> <<1>>] }
\* Account.status: Loaded, Touched, Touched|Created, Touched|SelfDestructed
Statuses ==
    { [touched |-> FALSE, selfdestructed |-> FALSE, created |-> FALSE],
      [touched |-> TRUE, selfdestructed |-> FALSE, created |-> FALSE],
      [touched |-> TRUE, selfdestructed |-> FALSE, created |-> TRUE],
      [touched |-> TRUE, selfdestructed |-> TRUE, created |-> FALSE] }
\* The slots a committed account changes: none, one set, one zeroed.
StorageChanges == {EmptyMap, [k \in {0} |-> 7], [k \in {1} |-> 0]}
\* An account that commit skips or resets is given without slots: commit
\* does not read them.
CommitAccounts ==
    {c \in [info : CommitInfos, storage : StorageChanges, status : Statuses] :
        (~c.status.touched \/ c.status.selfdestructed) => c.storage = EmptyMap}
\* Change sets: empty, one address, or both addresses with the same account.
ChangeSets ==
    {EmptyMap}
    \cup {[x \in {a} |-> r] : a \in Addresses, r \in CommitAccounts}
    \cup {[x \in Addresses |-> r] :
            r \in {c \in CommitAccounts : c.storage = EmptyMap}}

\* ------------------------------------------------------- Backend: data
\* The threads that call Backend, each making one call; one more than the
\* queue holds, so that a sender can find it full.
Callers == 1..(QueueCap + 1)

\* enum BackendRequest; the fields a variant lacks are left at a default.
NoAddress == "none"
Request(kind, address, slot, number) ==
    [kind |-> kind, address |-> address, slot |-> slot, number |-> number]
GetAccount(address) == Request("GetAccount", address, to_be_bytes(0), 0)
GetStorageAt(address, slot) == Request("GetStorageAt", address, slot, 0)
GetBlockHash(number) == Request("GetBlockHash", NoAddress, to_be_bytes(0), number)

\* enum BackendResponse
Response(kind, result) == [kind |-> kind, result |-> result]
\* The variant each Backend::get_* matches on; any other is unreachable!().
ExpectedKind(req) ==
    IF req.kind = "GetAccount" THEN "Account"
    ELSE IF req.kind = "GetStorageAt" THEN "Storage"
    ELSE "BlockHash"

\* A oneshot channel: open, holding the value sent, or with its sender
\* dropped before sending.
NoChannel == [state |-> "none", msg |-> None]
oneshot_channel == [state |-> "open", msg |-> None]
\* send, with the response thrown away.
send_lost(ch, resp) == ch
\* oneshot::Sender::send
send(ch, resp) == [state |-> "sent", msg |-> Some(resp)]
drop_sender(ch) ==
    IF ch.state = "open" THEN [ch EXCEPT !.state = "dropped"] ELSE ch

\* The Receiver of the queue was dropped: the worker's thread has unwound.
closed == wpc = "panicked"

NoAccount == [balance |-> 0, nonce |-> 0]

\* The calls made through Backend directly: accounts, one slot, and block
\* numbers at and above u64::MAX (number is a U256).
BridgeRequests ==
    {GetAccount(a) : a \in Addresses}
    \cup {GetStorageAt("a1", to_be_bytes(0))}
    \cup {GetBlockHash(n) : n \in {MaxU64, MaxU64 + 1}}

\* ----------------------------------------------------- actions of ForkDB
Cur == State(accounts, contracts, block_hashes, db)

\* The call whose outcome is o has been made.
Apply(o) ==
    /\ accounts' = o.st.accounts
    /\ contracts' = o.st.contracts
    /\ block_hashes' = o.st.block_hashes
    /\ db' = o.st.db
    /\ UNCHANGED bridgeVars

Basic(address) == \E ans \in AccountAnswers : Apply(basic(Cur, address, ans))

Storage(address, index) ==
    \E ans \in StorageAnswers : Apply(storage(Cur, address, index, ans))

BlockHash(number) ==
    \E ans \in BlockAnswers : Apply(block_hash(Cur, number, ans))

CodeByHash(code_hash) == Apply(code_by_hash(Cur, code_hash))

BasicRef(address) ==
    \E ans \in AccountAnswers : Apply(basic_ref(Cur, address, ans))

StorageRef(address, index) ==
    \E ans \in StorageAnswers : Apply(storage_ref(Cur, address, index, ans))

BlockHashRef(number) ==
    \E ans \in BlockAnswers : Apply(block_hash_ref(Cur, number, ans))

CodeByHashRef(code_hash) == Apply(code_by_hash_ref(Cur, code_hash))

Commit(changes) == Apply(commit(Cur, changes))

\* CacheDB::new(EmptyDB::default()): no account, no block hash, and the
\* contracts of the empty code under KECCAK_EMPTY and the zero hash.
InitDB ==
    /\ accounts = EmptyMap
    /\ contracts = [h \in {KECCAK_EMPTY, B256_ZERO} |-> <<>>]
    /\ block_hashes = EmptyMap

\* Backend::new, before any caller: the queue is empty, the worker runs
\* backend_loop with an empty map and waits in receiver.recv().
InitBridge ==
    /\ db = EmptyMap
    /\ queue = <<>>
    /\ cpc = [c \in Callers |-> "idle"]
    /\ creq = [c \in Callers |-> None]
    /\ cres = [c \in Callers |-> None]
    /\ reply = [c \in Callers |-> NoChannel]
    /\ wpc = "recv"
    /\ wcur = None
    /\ wacc = NoAccount

Init == InitDB /\ InitBridge

\* One ForkDB over accounts, storage and code.
Next ==
    \/ \E a \in Addresses : Basic(a)
    \/ \E a \in Addresses, k \in Slots : Storage(a, k)
    \/ \E h \in CodeHashes : CodeByHash(h)
    \/ \E a \in Addresses : BasicRef(a)
    \/ \E a \in Addresses, k \in Slots : StorageRef(a, k)
    \/ \E h \in CodeHashes : CodeByHashRef(h)
    \/ \E changes \in ChangeSets : Commit(changes)

Spec == Init /\ [][Next]_vars

\* One ForkDB over block hashes.
NextBlocks ==
    \/ \E n \in BlockNumbers : BlockHash(n)
    \/ \E n \in BlockNumbers : BlockHashRef(n)

SpecBlocks == Init /\ [][NextBlocks]_vars

\* ---------------------------------------------------- Backend: callers
\* Backend::get_account / get_storage_at / get_block_hash, up to the send:
\* the oneshot channel of the call is created.
Call(c, req) ==
    /\ cpc[c] = "idle"
    /\ cpc' = [cpc EXCEPT ![c] = "send"]
    /\ creq' = [creq EXCEPT ![c] = Some(req)]
    /\ reply' = [reply EXCEPT ![c] = oneshot_channel]
    /\ UNCHANGED <<dbVars, db, queue, cres, wpc, wcur, wacc>>

\* blocking_send on a queue without capacity limit.
BlockingSend_unbounded(c) ==
    /\ cpc[c] = "send"
    /\ IF closed
       THEN /\ cpc' = [cpc EXCEPT ![c] = "panicked"]
            /\ reply' = [reply EXCEPT ![c] = drop_sender(@)]
            /\ UNCHANGED queue
       ELSE /\ queue' = Append(queue, [req |-> creq[c][1], from |-> c])
            /\ cpc' = [cpc EXCEPT ![c] = "recv"]
            /\ UNCHANGED reply
    /\ UNCHANGED <<dbVars, db, creq, cres, wpc, wcur, wacc>>

\* sender.blocking_send((request, response_sender)).unwrap(): waits while
\* the queue is full; on a closed queue the send fails and unwrap panics.
BlockingSend(c) ==
    /\ cpc[c] = "send"
    /\ IF closed
       THEN /\ cpc' = [cpc EXCEPT ![c] = "panicked"]
            /\ reply' = [reply EXCEPT ![c] = drop_sender(@)]
            /\ UNCHANGED queue
       ELSE /\ Len(queue) < QueueCap
            /\ queue' = Append(queue, [req |-> creq[c][1], from |-> c])
            /\ cpc' = [cpc EXCEPT ![c] = "recv"]
            /\ UNCHANGED reply
    /\ UNCHANGED <<dbVars, db, creq, cres, wpc, wcur, wacc>>

\* response_receiver.blocking_recv().unwrap() and the match on the variant:
\* waits for the value or for the sender to be dropped; on a dropped sender
\* the receive fails and unwrap panics.
BlockingRecv(c) ==
    /\ cpc[c] = "recv"
    /\ reply[c].state \in {"sent", "dropped"}
    /\ IF reply[c].state = "sent"
          /\ reply[c].msg[1].kind = ExpectedKind(creq[c][1])
       THEN /\ cpc' = [cpc EXCEPT ![c] = "done"]
            /\ cres' = [cres EXCEPT ![c] = Some(reply[c].msg[1].result)]
       ELSE /\ cpc' = [cpc EXCEPT ![c] = "panicked"]
            /\ UNCHANGED cres
    /\ UNCHANGED <<dbVars, db, queue, creq, reply, wpc, wcur, wacc>>

\* ----------------------------------------------------- Backend: worker
\* response_sender.send(response), the result of send ignored; the loop
\* goes back to receiver.recv().
Respond(resp) ==
    /\ reply' = [reply EXCEPT ![wcur[1].from] = send(@, resp)]
    /\ wcur' = None
    /\ wacc' = NoAccount
    /\ wpc' = "recv"

\* A panic inside backend_loop unwinds the worker's thread: the sender in
\* its hands, the Receiver and the messages still queued are dropped.
WorkerPanic ==
    /\ wpc' = "panicked"
    /\ reply' = [c \in Callers |->
                    IF c = wcur[1].from
                       \/ \E i \in 1..Len(queue) : queue[i].from = c
                    THEN drop_sender(reply[c]) ELSE reply[c]]
    /\ queue' = <<>>
    /\ wcur' = None
    /\ wacc' = NoAccount

\* recv, taking the request enqueued last.
WorkerRecv_last ==
    /\ wpc = "recv"
    /\ queue # <<>>
    /\ wcur' = Some(queue[Len(queue)])
    /\ queue' = SubSeq(queue, 1, Len(queue) - 1)
    /\ wpc' = "match"
    /\ UNCHANGED <<dbVars, db, cpc, creq, cres, reply, wacc>>

\* while let Some((request, response_sender)) = receiver.recv().await
WorkerRecv ==
    /\ wpc = "recv"
    /\ queue # <<>>
    /\ wcur' = Some(Head(queue))
    /\ queue' = Tail(queue)
    /\ wpc' = "match"
    /\ UNCHANGED <<dbVars, db, cpc, creq, cres, reply, wacc>>

\* match request, with GetAccount fetched from the node even when the
\* worker's map holds the address.
WorkerMatch_refetch ==
    /\ wpc = "match"
    /\ LET request == wcur[1].req
       IN  IF request.kind = "GetAccount"
           THEN /\ wpc' = "get_balance"
                /\ UNCHANGED <<queue, reply, wcur, wacc>>
           ELSE IF request.kind = "GetStorageAt"
           THEN /\ wpc' = "get_storage_at"
                /\ UNCHANGED <<queue, reply, wcur, wacc>>
           ELSE IF request.number > MaxU64
           THEN WorkerPanic
           ELSE /\ wpc' = "get_block"
                /\ UNCHANGED <<queue, reply, wcur, wacc>>
    /\ UNCHANGED <<dbVars, db, cpc, creq, cres>>

\* match request: each arm up to its first await.  GetAccount answers from
\* the worker's map if it holds the address; GetBlockHash converts the
\* number with to::<u64>(), which panics above u64::MAX.
WorkerMatch ==
    /\ wpc = "match"
    /\ LET request == wcur[1].req
       IN  IF request.kind = "GetAccount"
           THEN IF Has(db, request.address)
                THEN /\ Respond(Response("Account", OkR(db[request.address])))
                     /\ UNCHANGED queue
                ELSE /\ wpc' = "get_balance"
                     /\ UNCHANGED <<queue, reply, wcur, wacc>>
           ELSE IF request.kind = "GetStorageAt"
           THEN /\ wpc' = "get_storage_at"
                /\ UNCHANGED <<queue, reply, wcur, wacc>>
           ELSE IF request.number > MaxU64
           THEN WorkerPanic
           ELSE /\ wpc' = "get_block"
                /\ UNCHANGED <<queue, reply, wcur, wacc>>
    /\ UNCHANGED <<dbVars, db, cpc, creq, cres>>

\* provider.get_balance(address).await ... ?
WorkerBalance ==
    /\ wpc = "get_balance"
    /\ \E ans \in AccountAnswers :
         IF ans.fail = "balance"
         THEN Respond(Response("Account", ErrR("transport")))
         ELSE /\ wacc' = [wacc EXCEPT !.balance = ans.acct.balance]
              /\ wpc' = "get_transaction_count"
              /\ UNCHANGED <<reply, wcur>>
    /\ UNCHANGED <<dbVars, db, queue, cpc, creq, cres>>

\* provider.get_transaction_count(address).await ... ?
WorkerNonce ==
    /\ wpc = "get_transaction_count"
    /\ \E ans \in AccountAnswers :
         IF ans.fail = "nonce"
         THEN Respond(Response("Account", ErrR("transport")))
         ELSE /\ wacc' = [wacc EXCEPT !.nonce = ans.acct.nonce]
              /\ wpc' = "get_code_at"
              /\ UNCHANGED <<reply, wcur>>
    /\ UNCHANGED <<dbVars, db, queue, cpc, creq, cres>>

\* get_code_at, with the balance and nonce fetched so far inserted into the
\* map when the code query fails.
WorkerCode_caches_partial ==
    /\ wpc = "get_code_at"
    /\ \E ans \in AccountAnswers :
         IF ans.fail = "code"
         THEN /\ db' = Put(db, wcur[1].req.address,
                           [balance |-> wacc.balance, nonce |-> wacc.nonce,
                            code |-> <<>>])
              /\ Respond(Response("Account", ErrR("transport")))
         ELSE LET account_info == [balance |-> wacc.balance,
                                   nonce |-> wacc.nonce,
                                   code |-> ans.acct.code]
              IN  /\ db' = Put(db, wcur[1].req.address, account_info)
                  /\ Respond(Response("Account", OkR(account_info)))
    /\ UNCHANGED <<dbVars, queue, cpc, creq, cres>>

\* provider.get_code_at(address).await ... ?, then db.insert and Ok
WorkerCode ==
    /\ wpc = "get_code_at"
    /\ \E ans \in AccountAnswers :
         IF ans.fail = "code"
         THEN /\ Respond(Response("Account", ErrR("transport")))
              /\ UNCHANGED db
         ELSE LET account_info == [balance |-> wacc.balance,
                                   nonce |-> wacc.nonce,
                                   code |-> ans.acct.code]
              IN  /\ db' = Put(db, wcur[1].req.address, account_info)
                  /\ Respond(Response("Account", OkR(account_info)))
    /\ UNCHANGED <<dbVars, queue, cpc, creq, cres>>

\* get_storage_at, with the result wrapped as an Account response.
WorkerStorage_as_account ==
    /\ wpc = "get_storage_at"
    /\ \E ans \in StorageAnswers :
         LET request == wcur[1].req
         IN  Respond(Response("Account",
                 get_storage_at(request.address, request.slot, ans).result))
    /\ UNCHANGED <<dbVars, db, queue, cpc, creq, cres>>

\* provider.get_storage_at(address, slot.into()).await
WorkerStorage ==
    /\ wpc = "get_storage_at"
    /\ \E ans \in StorageAnswers :
         LET request == wcur[1].req
         IN  Respond(Response("Storage",
                 get_storage_at(request.address, request.slot, ans).result))
    /\ UNCHANGED <<dbVars, db, queue, cpc, creq, cres>>

\* provider.get_block(..).await
WorkerBlock ==
    /\ wpc = "get_block"
    /\ \E ans \in BlockAnswers :
         Respond(Response("BlockHash", block_result(ans)))
    /\ UNCHANGED <<dbVars, db, queue, cpc, creq, cres>>

\* Threads calling one Backend, and its worker.
NextBridge ==
    \/ \E c \in Callers, req \in BridgeRequests : Call(c, req)
    \/ \E c \in Callers : BlockingSend(c)
    \/ \E c \in Callers : BlockingRecv(c)
    \/ WorkerRecv
    \/ WorkerMatch
    \/ WorkerBalance
    \/ WorkerNonce
    \/ WorkerCode
    \/ WorkerStorage
    \/ WorkerBlock

SpecBridge == Init /\ [][NextBridge]_vars

\* Threads all asking one Backend for the account of a1.  A thread that can
\* run does run, and the node answers each query (with a value or an
\* error), so no step that stays possible is put off forever.
NextSameAddress ==
    \/ \E c \in Callers : Call(c, GetAccount("a1"))
    \/ \E c \in Callers : BlockingSend(c)
    \/ \E c \in Callers : BlockingRecv(c)
    \/ WorkerRecv
    \/ WorkerMatch
    \/ WorkerBalance
    \/ WorkerNonce
    \/ WorkerCode

SpecSameAddress ==
    /\ Init
    /\ [][NextSameAddress]_vars
    /\ \A c \in Callers : WF_vars(BlockingSend(c)) /\ WF_vars(BlockingRecv(c))
    /\ WF_vars(WorkerRecv) /\ WF_vars(WorkerMatch)
    /\ WF_vars(WorkerBalance) /\ WF_vars(WorkerNonce) /\ WF_vars(WorkerCode)

\* Threads mixing the three kinds of request on one Backend: the account
\* and one slot of a1, and block numbers at and above u64::MAX.
MixedRequests ==
    {GetAccount("a1"), GetStorageAt("a1", to_be_bytes(0)),
     GetBlockHash(MaxU64), GetBlockHash(MaxU64 + 1)}

NextMixed ==
    \/ \E c \in Callers, req \in MixedRequests : Call(c, req)
    \/ \E c \in Callers : BlockingSend(c)
    \/ \E c \in Callers : BlockingRecv(c)
    \/ WorkerRecv
    \/ WorkerMatch
    \/ WorkerBalance
    \/ WorkerNonce
    \/ WorkerCode
    \/ WorkerStorage
    \/ WorkerBlock

SpecMixed == Init /\ [][NextMixed]_vars

\* ===================================================== claims on ForkDB
\* Q holds of the outcome of every read operation of ForkDB (every call
\* but commit) in state st, over all arguments and all answers of the node.
EveryRead(st, Q(_)) ==
    /\ \A a \in Addresses, ans \in AccountAnswers :
         Q(basic(st, a, ans)) /\ Q(basic_ref(st, a, ans))
    /\ \A a \in Addresses, k \in Slots, ans \in StorageAnswers :
         Q(storage(st, a, k, ans)) /\ Q(storage_ref(st, a, k, ans))
    /\ \A n \in BlockNumbers, ans \in BlockAnswers :
         Q(block_hash(st, n, ans)) /\ Q(block_hash_ref(st, n, ans))
    /\ \A h \in CodeHashes :
         Q(code_by_hash(st, h)) /\ Q(code_by_hash_ref(st, h))

\* The call of outcome o kept every account record of the overlay.
KeepsAccountInfos(o) ==
    \A a \in Addresses :
        Has(accounts, a)
            => /\ Has(o.st.accounts, a)
               /\ o.st.accounts[a].info = accounts[a].info

\* The call of outcome o kept every zero slot of the overlay.
KeepsZeroSlots(o) ==
    \A a \in Addresses, k \in Slots :
        (Has(accounts, a) /\ Has(accounts[a].storage, k)
           /\ accounts[a].storage[k] = 0)
            => /\ Has(o.st.accounts, a)
               /\ Has(o.st.accounts[a].storage, k)
               /\ o.st.accounts[a].storage[k] = 0

\* In state st, basic(address) answers r from the overlay: whatever the
\* provider would say, it is not asked.
AccountHit(st, address, r) ==
    \A ans \in AccountAnswers :
        LET o == basic(st, address, ans)
        IN  o.ret = OkR(Some(r)) /\ o.prov = <<>> /\ o.remote = <<>>

\* In state st, storage(address, index) answers v from the overlay.
StorageHit(st, address, index, v) ==
    \A ans \in StorageAnswers :
        LET o == storage(st, address, index, ans)
        IN  o.ret = OkR(v) /\ o.prov = <<>> /\ o.remote = <<>>

HasSlot(address, index) ==
    Has(accounts, address) /\ Has(accounts[address].storage, index)

\* C1: in the state a call of basic(a) that returned a record r leaves,
\* basic(a) answers r with no provider call and no RPC query; a record the
\* overlay holds for a is what basic(a) answers, in that way; and no read
\* operation, whatever the node answers, removes or changes a record of the
\* overlay.
C1_CacheFirst ==
    /\ \A a \in Addresses, ans \in AccountAnswers :
         LET o == basic(Cur, a, ans)
         IN  o.ret.val # None => AccountHit(o.st, a, o.ret.val[1])
    /\ \A a \in Addresses :
         Has(accounts, a) => AccountHit(Cur, a, accounts[a].info)
    /\ EveryRead(Cur, KeepsAccountInfos)

\* C1 witness: a1's record was fetched from the node and cached, and a
\* storage read of a1 came after it.
C1_Witness ==
    /\ Has(db, "a1") /\ Has(accounts, "a1")
    /\ accounts["a1"].info = ToAccountInfo(db["a1"])
    /\ accounts["a1"].info # DefaultInfo
    /\ Has(accounts["a1"].storage, 0)

\* C2 (as claimed): when storage(a, k) is the first access to a, basic(a)
\* called after it returns what it would have returned had storage not been
\* called.
C2_StorageFirstThenAccount ==
    \A a \in Addresses, k \in Slots :
        \A sans \in StorageAnswers, ans \in AccountAnswers :
            ~Has(accounts, a)
                => basic(storage(Cur, a, k, sans).st, a, ans).ret
                       = basic(Cur, a, ans).ret

\* C3 (as claimed): when the RPC queries fail and neither the overlay nor
\* the worker's map holds a, basic(a) returns an error.
C3_FailureIsError ==
    \A a \in Addresses, ans \in AccountAnswers :
        (~Has(accounts, a) /\ ~Has(db, a) /\ ans.fail = "balance")
            => basic(Cur, a, ans).ret.tag = "Err"

\* C4 (as claimed): a failed RPC query on a miss makes storage(a, k) and
\* block_hash(n) return an error.
C4_FetchFailureSurfaced ==
    /\ \A a \in Addresses, k \in Slots :
         ~HasSlot(a, k)
             => storage(Cur, a, k, [ok |-> FALSE, val |-> 0]).ret.tag = "Err"
    /\ \A n \in BlockNumbers :
         ~Has(block_hashes, n)
             => block_hash(Cur, n, [kind |-> "fail", hash |-> B256_ZERO]).ret.tag
                    = "Err"

C9_SentinelBlockHash ==
    \A ans \in BlockAnswers :
        /\ block_hash(Cur, MaxU64, ans).ret = OkR(KECCAK_EMPTY)
        /\ block_hash(Cur, MaxU64, ans).remote = <<>>
        /\ block_hash_ref(Cur, MaxU64, ans).ret = OkR(KECCAK_EMPTY)
        /\ block_hash_ref(Cur, MaxU64, ans).remote = <<>>

\* C10: a storage(a, k) that misses and is answered zero by the node makes
\* one RPC query, returns zero, and leaves a state in which storage(a, k)
\* answers zero from the overlay, with no RPC query; a zero the overlay
\* holds for (a, k) is what storage(a, k) answers, in that way; and no read
\* operation removes or changes a zero of the overlay.
C10_StorageDefaultCached ==
    /\ \A a \in Addresses, k \in Slots :
         LET o == storage(Cur, a, k, [ok |-> TRUE, val |-> 0])
         IN  ~HasSlot(a, k)
               => /\ o.ret = OkR(0)
                  /\ Len(o.remote) = 1
                  /\ StorageHit(o.st, a, k, 0)
    /\ \A a \in Addresses, k \in Slots :
         (HasSlot(a, k) /\ accounts[a].storage[k] = 0)
             => StorageHit(Cur, a, k, 0)
    /\ EveryRead(Cur, KeepsZeroSlots)

\* C10 witness: slot 0 of a1 holds a fetched zero.
C10_Witness ==
    /\ HasSlot("a1", 0)
    /\ accounts["a1"].storage[0] = 0

\* C11: a basic(a) that obtains no record leaves the overlay and the worker's
\* map as they were, with no entry for a; in the state it leaves, and in
\* every state whose overlay holds no entry for a, basic(a) calls the
\* provider once, and if the node then answers with a record that record is
\* returned and stored.
C11_NoNegativeCaching ==
    /\ \A a \in Addresses, ans \in AccountAnswers :
         LET o == basic(Cur, a, ans)
         IN  (o.ret.tag = "Ok" /\ o.ret.val = None)
               => /\ ~Has(o.st.accounts, a)
                  /\ o.st = Cur
                  /\ \A again \in AccountAnswers :
                       LET o2 == basic(o.st, a, again)
                       IN  /\ Len(o2.prov) = 1
                           /\ o2.remote # <<>>
                           /\ again.fail = "none"
                                => /\ o2.ret = OkR(Some(ToAccountInfo(again.acct)))
                                   /\ Has(o2.st.accounts, a)
    /\ \A a \in Addresses, ans \in AccountAnswers :
         ~Has(accounts, a) => Len(basic(Cur, a, ans).prov) = 1

\* C11 witness: a2 is cached from the node, nothing is held for a1 in the
\* overlay or the worker's map, and basic(a1) with a failing node returns no
\* record.
C11_Witness ==
    /\ Has(accounts, "a2") /\ Has(db, "a2")
    /\ ~Has(accounts, "a1") /\ ~Has(db, "a1")
    /\ basic(Cur, "a1",
             [acct |-> [balance |-> 0, nonce |-> 0, code |-> <<>>],
              fail |-> "nonce"]).ret = OkR(None)

\* C12 (as claimed): for a code hash the contracts of the overlay do not
\* hold, code_by_hash and code_by_hash_ref both return an error, and make no
\* provider call and no RPC query.
C12_CodeByHashNotFound ==
    \A h \in CodeHashes :
        ~Has(contracts, h)
            => /\ code_by_hash(Cur, h).ret.tag = "Err"
               /\ code_by_hash(Cur, h).prov = <<>>
               /\ code_by_hash(Cur, h).remote = <<>>
               /\ code_by_hash_ref(Cur, h).ret.tag = "Err"
               /\ code_by_hash_ref(Cur, h).prov = <<>>
               /\ code_by_hash_ref(Cur, h).remote = <<>>

\* C13: commit(changes), made in the current state or in the one a
\* block_hash(0) answered with a hash leaves, keeps the entry (record and
\* storage) of every address that is not a key of changes, creates none for
\* such an address, keeps every block hash and the worker's map, and makes
\* no provider call and no RPC query.
C13_CommitFrame ==
    \A changes \in ChangeSets :
        \A pre \in {Cur, block_hash(Cur, 0, [kind |-> "hash",
                                             hash |-> <<"block", 1>>]).st} :
            LET o == commit(pre, changes)
            IN  /\ \A a \in Addresses \ DOMAIN changes :
                     /\ Has(o.st.accounts, a) <=> Has(pre.accounts, a)
                     /\ Has(pre.accounts, a)
                          => o.st.accounts[a] = pre.accounts[a]
                /\ o.st.block_hashes = pre.block_hashes
                /\ o.st.db = pre.db
                /\ o.prov = <<>>
                /\ o.remote = <<>>

\* C13 witness: the overlay holds the committed record of a1 and, for a2,
\* the record fetched from the node and a slot.
C13_Witness ==
    /\ Has(accounts, "a1") /\ accounts["a1"].info.balance = 500
    /\ Has(accounts, "a2") /\ Has(db, "a2")
    /\ accounts["a2"].info = ToAccountInfo(db["a2"])
    /\ accounts["a2"].info.balance = 1000
    /\ Has(accounts["a2"].storage, 0)

\* The call of outcome o kept every entry of the overlay: account records,
\* slots and block hashes.
KeepsOverlayEntries(o) ==
    /\ \A a \in Addresses :
         Has(accounts, a)
             => /\ Has(o.st.accounts, a)
                /\ o.st.accounts[a].info = accounts[a].info
                /\ \A k \in DOMAIN accounts[a].storage :
                     /\ Has(o.st.accounts[a].storage, k)
                     /\ o.st.accounts[a].storage[k] = accounts[a].storage[k]
    /\ \A n \in DOMAIN block_hashes :
         /\ Has(o.st.block_hashes, n)
         /\ o.st.block_hashes[n] = block_hashes[n]

\* C16 (as claimed): no read operation removes or changes an entry of the
\* overlay, and an account record comes into the overlay only by a basic of
\* its own address that missed and fetched: after a storage(a, k) made while
\* the overlay holds no record for a, basic(a) still misses and asks the
\* provider.
C16_OverlayMonotoneUnderReads ==
    /\ EveryRead(Cur, KeepsOverlayEntries)
    /\ \A a \in Addresses, k \in Slots, sans \in StorageAnswers :
         ~Has(accounts, a)
             => \A ans \in AccountAnswers :
                    Len(basic(storage(Cur, a, k, sans).st, a, ans).prov) = 1

\* The call of outcome o left the overlay of the current state as it was.
OverlayUnchanged(o) ==
    /\ o.st.accounts = accounts
    /\ o.st.contracts = contracts
    /\ o.st.block_hashes = block_hashes

\* C20 (as claimed): in every state and for every answer of the node,
\* basic_ref, storage_ref and block_hash_ref return what basic, storage and
\* block_hash return, and leave the overlay unchanged.
C20_RefVariantsAgree ==
    /\ \A a \in Addresses, ans \in AccountAnswers :
         /\ basic_ref(Cur, a, ans).ret = basic(Cur, a, ans).ret
         /\ OverlayUnchanged(basic_ref(Cur, a, ans))
    /\ \A a \in Addresses, k \in Slots, ans \in StorageAnswers :
         /\ storage_ref(Cur, a, k, ans).ret = storage(Cur, a, k, ans).ret
         /\ OverlayUnchanged(storage_ref(Cur, a, k, ans))
    /\ \A n \in BlockNumbers, ans \in BlockAnswers :
         /\ block_hash_ref(Cur, n, ans).ret = block_hash(Cur, n, ans).ret
         /\ OverlayUnchanged(block_hash_ref(Cur, n, ans))

\* ===================================================== claims on Backend
\* C5 (as claimed): a call of Backend never ends in a panic of the calling
\* thread: every call that has ended has returned a result, and a call that
\* found the queue closed, or its reply sender dropped, has returned an
\* error.
C5_BackendUnavailable ==
    \A c \in Callers :
        cpc[c] \notin {"idle", "send", "recv"}
            => /\ cpc[c] = "done"
               /\ cres[c] # None
               /\ (reply[c].state # "sent" => cres[c][1].tag = "Err")

\* C6: with all callers asking for the account of a1 and the node answering
\* every query, each caller that has started its call gets a result.
C6_ConcurrentCallersProgress ==
    \A c \in Callers : (cpc[c] = "send") ~> (cpc[c] = "done")

\* C6 witness: one caller has its result, an account fetched by the worker,
\* while every other caller is in its call.
C6_Witness ==
    \E c \in Callers :
        /\ cpc[c] = "done"
        /\ cres[c][1].tag = "Ok"
        /\ \A d \in Callers \ {c} : cpc[d] \in {"send", "recv"}

\* C7 (as claimed): the step in which the worker lets go of a request it has
\* dequeued leaves exactly one response, of the kind of the request, in the
\* reply channel of the caller that sent it, which held none before, and
\* delivers nothing to any other caller.
C7_ReplyRouting ==
    [][\A c \in Callers :
          (wcur # None /\ wcur[1].from = c /\ wcur' = None)
              => /\ reply[c].state = "open"
                 /\ reply'[c].state = "sent"
                 /\ reply'[c].msg[1].kind = ExpectedKind(creq[c][1])
                 /\ \A d \in Callers \ {c} : reply'[d].msg = reply[d].msg]_vars

\* C14: the queue never holds more than QueueCap requests; a caller that is
\* sending while the queue is full stays in its send during that step; such
\* a caller ends with a result; and no caller ends in a panic, so no request
\* is rejected or dropped.
C14_Backpressure ==
    /\ [](Len(queue) <= QueueCap)
    /\ [][\A c \in Callers :
             (cpc[c] = "send" /\ Len(queue) = QueueCap) => cpc'[c] = "send"]_vars
    /\ \A c \in Callers :
         (cpc[c] = "send" /\ Len(queue) = QueueCap) ~> (cpc[c] = "done")
    /\ [](\A c \in Callers : cpc[c] # "panicked")

\* C14 witness: the queue is full of requests the worker has not begun to
\* take, and one more caller is in its send.
C14_Witness ==
    /\ Len(queue) = QueueCap
    /\ wpc = "recv" /\ wcur = None
    /\ \E c \in Callers :
         /\ cpc[c] = "send"
         /\ \A i \in 1..Len(queue) : queue[i].from # c

\* C15: an entry of the worker's map is never removed or changed; when the
\* worker takes up a GetAccount request for an address its map holds, its
\* next step deposits that entry as the response and goes back to receive,
\* without a query to the node; and every account a caller was returned is
\* the entry the map holds for the address.
C15_SecondLevelCache ==
    /\ [][\A a \in Addresses :
             Has(db, a) => (Has(db', a) /\ db'[a] = db[a])]_vars
    /\ [][(/\ wpc = "match"
           /\ wcur[1].req.kind = "GetAccount"
           /\ Has(db, wcur[1].req.address))
            => /\ wpc' \in {"match", "recv"}
               /\ wpc' = "recv"
                    => reply'[wcur[1].from] =
                         send(reply[wcur[1].from],
                              Response("Account", OkR(db[wcur[1].req.address])))]_vars
    /\ [](\A c \in Callers :
            (/\ cpc[c] = "done"
             /\ creq[c][1].kind = "GetAccount"
             /\ cres[c][1].tag = "Ok")
              => /\ Has(db, creq[c][1].address)
                 /\ cres[c][1].val = db[creq[c][1].address])

\* C15 witness: two callers were returned the account of a1; the worker
\* fetches only when its map has no entry, so one of them was answered from
\* the map.
C15_Witness ==
    \E c, d \in Callers :
        /\ c # d
        /\ cpc[c] = "done" /\ cpc[d] = "done"
        /\ creq[c][1] = GetAccount("a1") /\ creq[d][1] = GetAccount("a1")
        /\ cres[c][1].tag = "Ok" /\ cres[d][1].tag = "Ok"

\* q is an initial part of r.
IsPrefix(q, r) == Len(q) <= Len(r) /\ SubSeq(r, 1, Len(q)) = q

\* C17: the worker takes a request only from the head of the queue, and
\* only when it has none in its hands; while it has one, the queue only
\* grows at its tail (or is dropped whole if the worker panics); it lets go
\* of a request only by sending its reply (or by panicking); and it is at a
\* query to the node, or about to start one, exactly when it has a request
\* in its hands, so at most one request is in flight.
C17_SingleFlightFIFO ==
    /\ [][wcur' # wcur /\ wcur' # None
            => /\ wcur = None
               /\ queue # <<>>
               /\ wcur'[1] = Head(queue)
               /\ queue' = Tail(queue)]_vars
    /\ [][(wcur # None \/ wcur' = None) /\ wpc' # "panicked"
            => IsPrefix(queue, queue')]_vars
    /\ [][wcur # None /\ wcur' = None /\ wpc' # "panicked"
            => /\ reply'[wcur[1].from].state = "sent"
               /\ wpc' = "recv"]_vars
    /\ [](wcur # None
            <=> wpc \in {"match", "get_balance", "get_transaction_count",
                         "get_code_at", "get_storage_at", "get_block"})

\* C17 witness: one caller has its result, the worker waits for the node's
\* answer to the request in its hands, and another request waits in the
\* queue.
C17_Witness ==
    /\ \E c \in Callers : cpc[c] = "done"
    /\ wcur # None /\ wpc = "get_transaction_count"
    /\ queue # <<>>

\* The worker is inside get_account, at one of its three queries.
InAccountFetch ==
    wpc \in {"get_balance", "get_transaction_count", "get_code_at"}

\* C18: the worker's map gains an entry only in the step that ends the code
\* query, the entry being the balance and nonce fetched before and the
\* response deposited in that step being Ok of that entry; the queries are
\* made in the order balance, nonce, code, each after the one before
\* succeeded; a get_account that ends deposits either Ok of the entry it
\* inserted or an error with the map unchanged and without the address; a
\* GetAccount for an address the map lacks goes to the node; and a caller
\* returns the result deposited for it.
C18_NoPartialAccount ==
    /\ [][\A a \in Addresses :
             (~Has(db, a) /\ Has(db', a))
               => /\ wpc = "get_code_at"
                  /\ wcur[1].req = GetAccount(a)
                  /\ db'[a].balance = wacc.balance
                  /\ db'[a].nonce = wacc.nonce
                  /\ reply'[wcur[1].from] =
                       send(reply[wcur[1].from],
                            Response("Account", OkR(db'[a])))]_vars
    /\ [][/\ wpc' = "get_transaction_count" /\ wpc' # wpc => wpc = "get_balance"
          /\ wpc' = "get_code_at" /\ wpc' # wpc => wpc = "get_transaction_count"
          /\ wpc' = "get_balance" /\ wpc' # wpc
               => /\ wpc = "match"
                  /\ ~Has(db, wcur[1].req.address)]_vars
    /\ [][InAccountFetch /\ wpc' = "recv"
            => LET r == reply'[wcur[1].from].msg[1]
                   a == wcur[1].req.address
               IN  /\ r.kind = "Account"
                   /\ r.result.tag = "Ok"
                        => /\ wpc = "get_code_at"
                           /\ Has(db', a) /\ db'[a] = r.result.val
                   /\ r.result.tag = "Err"
                        => db' = db /\ ~Has(db', a)]_vars
    /\ [][(/\ wpc = "match"
           /\ wcur[1].req.kind = "GetAccount"
           /\ ~Has(db, wcur[1].req.address))
            => wpc' \in {"match", "get_balance"}]_vars
    /\ [](\A c \in Callers :
            cpc[c] = "done" => cres[c][1] = reply[c].msg[1].result)

\* C18 witness: of two callers that asked for a1, one was returned an error
\* and the other an account, fetched after that failure.
C18_Witness ==
    \E c, d \in Callers :
        /\ cpc[c] = "done" /\ cpc[d] = "done"
        /\ creq[c][1] = GetAccount("a1") /\ creq[d][1] = GetAccount("a1")
        /\ cres[c][1].tag = "Err" /\ cres[d][1].tag = "Ok"

\* C19: a response deposited in a caller's reply channel is of the variant
\* its request expects, and a caller that panicked did so on a dropped reply
\* sender or a closed queue, never with a response in its channel: the
\* unreachable!() arms are not executed.
C19_ResponseKindMatches ==
    \A c \in Callers :
        /\ reply[c].state = "sent"
             => reply[c].msg[1].kind = ExpectedKind(creq[c][1])
        /\ cpc[c] = "panicked" => reply[c].state = "dropped"

\* C19 witness: three callers have returned from an account, a storage and
\* a block-hash request.
C19_Witness ==
    \E c, d, e \in Callers :
        /\ cpc[c] = "done" /\ creq[c][1].kind = "GetAccount"
        /\ cpc[d] = "done" /\ creq[d][1].kind = "GetStorageAt"
        /\ cpc[e] = "done" /\ creq[e][1].kind = "GetBlockHash"

====
